---- MODULE Spec2Model ----
(***************************************************************************)
(* State-machine model of the screenshot test runner:                     *)
(*   - cli.ts: the main of the command line and its exit code              *)
(*   - ScreenshotRunner.run: the orchestration of one run                   *)
(*   - ScreenshotRunner._capture: the browser-context pool scheduler        *)
(*   - ScreenshotRunner._captureProjectScreenshots: one project's capturer  *)
(*   - ScreenshotRunner._compare: the comparison pass                       *)
(*   - loadReferences, save, saveDifferences: the files read and written   *)
(*   - compare of the RMSE runner, applied on its own (CompareSpec)         *)
(* One action is one run-to-completion step of the event loop: the code    *)
(* between two awaits of one async function, or one callback.              *)
(***************************************************************************)
EXTENDS Integers, Sequences, FiniteSets, TLC

(***************************************************************************)
(* Bounds of the model.                                                    *)
(***************************************************************************)
\* Largest number of projects in the configuration.
MaxProjects == 2
\* Largest value given to --max-contexts (values run from -1 up to it).
MaxContexts == 1
\* Largest number of things the pages of one run do: testScreenshot calls for
\* declared events that end with a screenshot, and errors reported.
MaxCalls == 2
\* Largest number of reference files that differ from what the page shows.
MaxBadReferences == 1
\* Largest number of pixels of an image given to a comparator on its own.
MaxPixels == 2
\* Largest timeout, in polls of the waiting loop, of a capturer of the
\* fidelity runner run on its own.
MaxPolls == 2

(***************************************************************************)
(* Program constants.                                                      *)
(***************************************************************************)
\* runner.ts:162, Math.max(2, cpus().length)
MinDefaultContexts == 2
\* runner.ts:162, Math.min(..., 6)
MaxDefaultContexts == 6
\* runner.ts:442, debounceTime of the waiting loop (ms)
DebounceTime == 1000

\* JavaScript values that are not numbers of the model.
Null == [kind |-> "null"]
NaN == [kind |-> "NaN"]
Num(n) == [kind |-> "number", value |-> n]

Min(a, b) == IF a < b THEN a ELSE b
Max(a, b) == IF a > b THEN a ELSE b

(***************************************************************************)
(* Images.  A pixel stands for the four RGBA bytes of one pixel; `data`    *)
(* holds width*height pixels for a decoded PNG.                            *)
(***************************************************************************)
Image(w, h, px) == [width |-> w, height |-> h, data |-> px]

\* What the page can show when a screenshot is taken: the viewport is
\* width x height (runner.ts:394-398), the content is the page's.
Renderings(project) ==
    { Image(project.width, project.height, [i \in 1..(project.width * project.height) |-> 0]) }

\* What a reference file can be on disk when it is not the PNG of what the
\* page shows: missing, not a PNG, or the PNG of another image.
ReferenceFiles ==
    { [kind |-> "missing"],
      [kind |-> "corrupt"],
      [kind |-> "png", image |-> Image(1, 2, <<0, 1>>)],
      [kind |-> "png", image |-> Image(1, 2, <<1, 1>>)],
      [kind |-> "png", image |-> Image(2, 1, <<0, 0>>)],
      [kind |-> "png", image |-> Image(1, 1, <<0>>)] }

\* The reference file that holds what the page of a project shows.
ExpectedReference(project) ==
    [kind |-> "png",
     image |-> Image(project.width, project.height,
                     [i \in 1 .. (project.width * project.height) |-> 0])]

\* runner.ts:46-55: the promise of one scenario: the decoded file, or an
\* Error when readFile rejects or parsePNG throws.
LoadReference(file) ==
    IF file.kind = "png"
    THEN [kind |-> "image", image |-> file.image]
    ELSE [kind |-> "error", message |-> <<"Failed to open reference", file.kind>>]

\* LoadReferences where one failure fails every entry of the batch.
LoadReferences_AllOrNothing(files) ==
    IF \E i \in 1 .. Len(files) : files[i].kind # "png"
    THEN [i \in 1 .. Len(files) |->
             [kind |-> "error", message |-> <<"Failed to open reference", "batch">>]]
    ELSE [i \in 1 .. Len(files) |-> LoadReference(files[i])]

\* runner.ts:45-57, loadReferences: what the returned promise fulfils with.
LoadReferences(files) == [i \in 1 .. Len(files) |-> LoadReference(files[i])]

(***************************************************************************)
(* Configuration (config.ts).  Tolerances are in thousandths.              *)
(***************************************************************************)
Scenario(index, event, tolerance) ==
    [index |-> index, event |-> event, tolerance |-> tolerance]

\* Project i of the configuration, as Config.add leaves it.
Project(i) ==
    [name |-> i,
     timeout |-> IF i = 0 THEN 2 * DebounceTime ELSE DebounceTime,
     width |-> 1,
     height |-> 2,
     scenarios |-> IF i = 0
                     THEN << Scenario(0, "a", 5), Scenario(1, "b", 500) >>
                     ELSE << Scenario(0, "a", 5) >>]

\* A project whose two scenarios declare the same event, with a timeout that
\* is not a whole number of polls (config.ts:163-184 takes both as they are).
TwinProject ==
    [name |-> 0,
     timeout |-> (3 * DebounceTime) \div 2,
     width |-> 1,
     height |-> 2,
     scenarios |-> << Scenario(0, "a", 5), Scenario(1, "a", 5) >>]

\* A path given on the command line (cli.ts:112, --output, and cli.ts:144, --logs).
Path(s) == [kind |-> "path", value |-> s]

\* Event ids a page may pass to testScreenshot; "x" is declared by no project.
Events == {"a", "b", "x"}

\* cli.ts:108,117: Config.maxContexts from the --max-contexts argument.
\* An argument is [given |-> FALSE], or [given |-> TRUE, parsed |-> v] where v is
\* what parseInt makes of its text: Num(n) or NaN.
Truthy(v) == v # Null /\ v # NaN /\ v # Num(0)
IsNaN(v) == v = NaN
CliMaxContexts(arg) ==
    LET maxContexts == IF arg.given THEN arg.parsed ELSE Null
    IN  IF Truthy(maxContexts) /\ ~IsNaN(maxContexts) THEN maxContexts ELSE Null

\* What --max-contexts can be on the command line.
CliArgs ==
    {[given |-> FALSE], [given |-> TRUE, parsed |-> NaN]}
        \cup {[given |-> TRUE, parsed |-> Num(n)] : n \in (-1) .. MaxContexts}

\* Values of cpus().length.
CpuChoices == {1, 8}

\* runner.ts:161-163
ContextsUpperBound(maxContexts, cpus) ==
    IF maxContexts # Null THEN maxContexts.value
    ELSE Min(Max(MinDefaultContexts, cpus), MaxDefaultContexts)
ContextsCount(projectCount, maxContexts, cpus) ==
    Min(projectCount, ContextsUpperBound(maxContexts, cpus))

VARIABLES
    config,        \* the Config the command line builds and loads
    cmp,           \* a comparator applied on its own: its arguments, then its result
    fid,           \* a capturer of the fidelity runner on its own: its locals
    cliPc,         \* position of the main of cli.ts
    exitStatus,    \* the code the process exited with, Null while it runs
    logsFile,      \* "none", or how saveLogs settled: "written" or "failed"
    runPc,         \* position of run()
    runError,      \* what run() rejected with, Null otherwise
    server,        \* "none", "listening" or "closed"
    browser,       \* "none", "open" or "closed"
    contextsCount, \* `contexts` of run(), the argument of _capture
    capPc,         \* position of _capture
    capI,          \* loop variable i of _capture
    starts,        \* the projects _captureProjectScreenshots was called for, in order
    contexts,      \* the `contexts` array of _capture: a context id or Null
    result,        \* the `result` array of _capture: the task stored at each index
    pngs,          \* value _capture fulfilled with
    cPc,           \* per project: position of _captureProjectScreenshots
    slot,          \* per project: freeContext and context captured by the finally callback
    results,       \* per project: the `results` array of its capturer
    eventCount,    \* per project: eventCount of its capturer
    time,          \* per project: `time` of the waiting loop (0 outside of it)
    inflight,      \* per project: processEvent calls awaiting page.screenshot
    reason,        \* per project: the call whose rejection rejected the capturer, or Null
    outOfOrder,    \* history: a capturer settled while one of a lower index was running
    warned,        \* the warning for a non-existing event was printed (runner.ts:402)
    errors,        \* per project, the length of `errors` (runner.ts:359)
    files,         \* per project: the reference files as loadReferences found them
    references,    \* per project: loaded references
    screenshots,   \* per project: decoded screenshots
    failures,      \* per project: failed scenarios
    differences,   \* per project: difference images
    success,       \* `success` of run(), the value it returns
    outputRoot,    \* what the path of config.output is on disk ("none" without --output)
    folders,       \* per project: "none", or how mkdirp of its output folder settled
    saved          \* the screenshots and difference images written

vars == << config, cmp, fid, cliPc, exitStatus, logsFile, runPc, runError, server, browser, contextsCount,
           capPc, capI, starts, contexts, result, pngs, cPc, slot, results, eventCount, time,
           inflight, reason, outOfOrder, warned, errors, files, references, screenshots,
           failures, differences, success, outputRoot, folders, saved >>

\* What no step of the command line or of the runner changes.
inputs == << config, cmp, fid >>
cliVars == << cliPc, exitStatus, logsFile >>
runCore == << runPc, runError, server, browser, contextsCount, files, references,
              screenshots, failures, differences, success >>
outVars == << outputRoot, folders, saved >>
runVars == << cliVars, runCore, outVars >>
capVars == << capPc, capI, starts, contexts, result, pngs >>
taskVars == << cPc, slot, results, eventCount, time, inflight, reason, outOfOrder, warned,
              errors >>

\* utils.ts:68-71 and cli.ts:149: process.exit ends every task of the process.
ProcessRuns == cliPc # "exited"

N == Len(config.projects)
Projects == 0 .. (N - 1)
project(p) == config.projects[p + 1]



(***************************************************************************)
(* _capture: the context pool (runner.ts:297-329).                         *)
(***************************************************************************)
Context(id) == [kind |-> "context", id |-> id]

\* runner.ts:310, the `null!` the result array is filled with.
NoTask == -1

\* runner.ts:301-309: one context per index below contextsCount
\* (Array.from({length}) is empty for a length below 1).
CreateContexts(count) == [s \in 1 .. Max(count, 0) |-> Context(s - 1)]

\* FindFreeContext taking the first slot, free or not.
FindFreeContext_First(ctxs) == IF Len(ctxs) > 0 THEN 0 ELSE -1

\* runner.ts:314, contexts.findIndex((x) => x !== null)
FindFreeContext(ctxs) ==
    IF \E s \in 1 .. Len(ctxs) : ctxs[s] # Null
    THEN (CHOOSE s \in 1 .. Len(ctxs) :
              /\ ctxs[s] # Null
              /\ \A t \in 1 .. (s - 1) : ctxs[t] = Null) - 1
    ELSE -1

\* MarkUsed without the assignment of runner.ts:321.
MarkUsed_NotMarked(ctxs, freeContext) == ctxs

\* runner.ts:321, contexts[freeContext] = null
MarkUsed(ctxs, freeContext) == [ctxs EXCEPT ![freeContext + 1] = Null]

\* Assignment with the result stored at the index of the context, not of the project.
Assignment_ByContext(i, freeContext, context) ==
    [index |-> freeContext, projectId |-> i, freeContext |-> freeContext,
     context |-> context]

\* runner.ts:323-325: what one iteration binds: the index of `result` written,
\* the project captured, and the freeContext and context the finally callback keeps.
Assignment(i, freeContext, context) ==
    [index |-> i, projectId |-> i, freeContext |-> freeContext, context |-> context]

\* ReleaseContext as a then callback: skipped when the task rejects.
ReleaseContext_OnFulfilOnly(ctxs, binding, outcome) ==
    IF outcome = "fulfilled"
    THEN [ctxs EXCEPT ![binding.freeContext + 1] = binding.context]
    ELSE ctxs

\* runner.ts:324, the finally callback: contexts[freeContext] = context.
\* `outcome` is how the capture task settled.
ReleaseContext(ctxs, binding, outcome) ==
    [ctxs EXCEPT ![binding.freeContext + 1] = binding.context]

\* runner.ts:312-326: the for loop, run until it awaits the debounce timer
\* ("wait") or leaves the loop ("all").  `started` lists the iterations made.
RECURSIVE RunLoop(_, _, _)
RunLoop(i, ctxs, started) ==
    IF ~(i < N)
    THEN [pc |-> "all", i |-> i, contexts |-> ctxs, started |-> started]
    ELSE LET freeContext == FindFreeContext(ctxs)
         IN  IF freeContext = -1
             THEN [pc |-> "wait", i |-> i, contexts |-> ctxs, started |-> started]
             ELSE RunLoop(i + 1, MarkUsed(ctxs, freeContext),
                          Append(started,
                                 Assignment(i, freeContext, ctxs[freeContext + 1])))

\* runner.ts:328, Promise.all(result): a null entry is passed through,
\* a promise entry gives the value its task fulfilled with.
PromiseAll(res, values) ==
    [i \in 1 .. N |-> IF res[i - 1] = NoTask THEN <<>> ELSE values[res[i - 1]]]

(***************************************************************************)
(* _captureProjectScreenshots (runner.ts:339-450).                         *)
(***************************************************************************)
NullSlot == [kind |-> "null"]
NotDispatched(event) ==
    [kind |-> "error", message |-> <<"event wasn't dispatched", event>>]
Screenshot(p, event, image) ==
    [kind |-> "png", project |-> p, event |-> event, image |-> image]

\* InitResults without the loop of runner.ts:351-356: the array stays filled with null.
InitResults_NullFilled(scenarios) == [i \in 1 .. Len(scenarios) |-> NullSlot]

\* runner.ts:349-356: `results` after the initialisation loop.
InitResults(scenarios) ==
    [i \in 1 .. Len(scenarios) |-> NotDispatched(scenarios[i].event)]

\* runner.ts:351-355,401,412: eventToScenario.has(e) and .get(e); a later
\* scenario with the same event replaces the earlier entry of the map.
\* HasEvent without the check of runner.ts:401.
HasEvent_Always(scenarios, e) == TRUE
HasEvent(scenarios, e) == \E i \in 1 .. Len(scenarios) : scenarios[i].event = e
\* What Map.get gives for a key the map does not hold.
Undefined == -1
GetScenario(scenarios, e) ==
    IF \E i \in 1 .. Len(scenarios) : scenarios[i].event = e
    THEN (CHOOSE i \in 1 .. Len(scenarios) :
              /\ scenarios[i].event = e
              /\ \A j \in (i + 1) .. Len(scenarios) : scenarios[j].event # e) - 1
    ELSE Undefined

\* KeepWaiting without the test of the time waited.
KeepWaiting_NoTimeout(count, received, elapsed, timeout) == received < count

\* runner.ts:441, the condition of the waiting loop.
KeepWaiting(count, received, elapsed, timeout) ==
    received < count /\ elapsed < timeout

\* Positions of a capturer: "setup" (the awaits of runner.ts:375-419), "goto"
\* (those of runner.ts:423-429), "poll" (the waiting loop, runner.ts:441-445)
\* and "closing" (page.close, runner.ts:447); then how its promise settled.
\* At PageLive positions the page exists, testScreenshot is exposed and the
\* application runs.
PageLive == {"goto", "watching", "poll", "closing"}
Running == {"setup", "goto", "watching", "poll", "closing"}
Settled == {"fulfilled", "rejected"}

\* The error a rejected call of the browser API rejects with.
Rejection(call) == [kind |-> "error", call |-> call]

\* One await of the capturer resolving with no other effect.
Advance(p, from, to) ==
    /\ ProcessRuns
    /\ cPc[p] = from
    /\ cPc' = [cPc EXCEPT ![p] = to]
    /\ UNCHANGED << inputs, runVars, capVars, slot, results, eventCount, time,
                    inflight, reason, outOfOrder, warned, errors >>

\* runner.ts:323-325,449: the capturer settles; in the same turn of the event
\* loop the finally callback runs and the promise stored in `result` settles
\* the same way.  A page.screenshot pending on the page is rejected with it.
\* `call` is the call that rejected, Null when the capturer returns.  `time`,
\* a local of the waiting loop, is gone with the invocation (0 in the model).
Settle(p, from, call) ==
    LET outcome == IF call = Null THEN "fulfilled" ELSE "rejected"
    IN  /\ ProcessRuns
        /\ cPc[p] = from
        /\ cPc' = [cPc EXCEPT ![p] = outcome]
        /\ reason' = [reason EXCEPT ![p] = call]
        /\ contexts' = ReleaseContext(contexts, slot[p], outcome)
        /\ inflight' = [inflight EXCEPT ![p] = {}]
        /\ outOfOrder' = (outOfOrder \/ \E q \in 0 .. (p - 1) : cPc[q] \in Running)
        /\ time' = [time EXCEPT ![p] = 0]
        /\ errors' = [errors EXCEPT ![p] = 0]
        /\ UNCHANGED << inputs, runVars, capPc, capI, starts, result, pngs, slot, results,
                        eventCount, warned >>

\* runner.ts:375-419: the page is there (browser.pages, browser.newPage), the
\* sinks are registered, page.setViewport and page.exposeFunction resolved
PageReady(p) == Advance(p, "setup", "goto")
\* one of these awaits rejects
SetupFails(p) == Settle(p, "setup", Rejection("setup"))

\* runner.ts:423-445: page.goto, injectWebXRPolyfill and page.evaluate resolve
\* and the waiting loop is entered or, in watch mode,
\* page.waitForNavigation is awaited.
Navigated(p) ==
    /\ ProcessRuns
    /\ cPc[p] = "goto"
    /\ time' = [time EXCEPT ![p] = 0]
    /\ cPc' = [cPc EXCEPT ![p] =
                 IF config.watch THEN "watching"
                 ELSE IF KeepWaiting(Len(project(p).scenarios), eventCount[p], 0,
                                     project(p).timeout)
                 THEN "poll" ELSE "closing"]
    /\ UNCHANGED << inputs, runVars, capVars, slot, results, eventCount, inflight,
                    reason, outOfOrder, warned, errors >>

\* runner.ts:436-445: in watch mode page.waitForNavigation resolved (the page
\* was navigated or reloaded); the waiting loop is entered.
WatchEnds(p) ==
    /\ ProcessRuns
    /\ cPc[p] = "watching"
    /\ cPc' = [cPc EXCEPT ![p] =
                 IF KeepWaiting(Len(project(p).scenarios), eventCount[p], 0,
                                project(p).timeout)
                 THEN "poll" ELSE "closing"]
    /\ UNCHANGED << inputs, runVars, capVars, slot, results, eventCount, time,
                    inflight, reason, outOfOrder, warned, errors >>

\* runner.ts:437: page.waitForNavigation rejected (the page was closed)
WatchFails(p) == Settle(p, "watching", Rejection("page.waitForNavigation"))

\* runner.ts:423: page.goto rejects (or one of the two awaits after it)
NavigationFails(p) == Settle(p, "goto", Rejection("page.goto"))

\* PollWake giving up the screenshots of the project when its timeout expires.
PollWake_DropsOnExpiry(p) ==
    /\ ProcessRuns
    /\ cPc[p] = "poll"
    /\ time' = [time EXCEPT ![p] = time[p] + DebounceTime]
    /\ cPc' = [cPc EXCEPT ![p] =
                 IF KeepWaiting(Len(project(p).scenarios), eventCount[p],
                                time[p] + DebounceTime, project(p).timeout)
                 THEN "poll" ELSE "closing"]
    /\ results' = IF time[p] + DebounceTime < project(p).timeout THEN results
                  ELSE [results EXCEPT ![p] = InitResults(project(p).scenarios)]
    /\ UNCHANGED << inputs, runVars, capVars, slot, eventCount, inflight,
                    reason, outOfOrder, warned, errors >>

\* runner.ts:441-447: the debounce timer of the waiting loop fires; the loop
\* goes on, or ends and page.close() is called.
PollWake(p) ==
    /\ ProcessRuns
    /\ cPc[p] = "poll"
    /\ time' = [time EXCEPT ![p] = time[p] + DebounceTime]
    /\ cPc' = [cPc EXCEPT ![p] =
                 IF KeepWaiting(Len(project(p).scenarios), eventCount[p],
                                time[p] + DebounceTime, project(p).timeout)
                 THEN "poll" ELSE "closing"]
    /\ UNCHANGED << inputs, runVars, capVars, slot, results, eventCount, inflight,
                    reason, outOfOrder, warned, errors >>

\* runner.ts:447-449: page.close() resolves and `results` is returned
PageClosed(p) == Settle(p, "closing", Null)
\* runner.ts:447: page.close() rejects
PageCloseFails(p) == Settle(p, "closing", Rejection("page.close"))

\* Calls of processEvent awaiting their screenshot, and screenshots stored.
RECURSIVE Sum(_, _)
Sum(f, S) == IF S = {} THEN 0 ELSE LET x == CHOOSE y \in S : TRUE IN f[x] + Sum(f, S \ {x})
Pending == Sum([p \in Projects |-> Cardinality(inflight[p])], Projects)
Received == Sum(eventCount, Projects)
Reported == Sum(errors, Projects)

\* runner.ts:366-373,377-389: the page reports an uncaught error, a crash or
\* a console message of type error, and onerror pushes it to `errors`.
PageError(p) ==
    /\ ProcessRuns
    /\ cPc[p] \in PageLive
    /\ Pending + Received + Reported < MaxCalls
    /\ errors' = [errors EXCEPT ![p] = @ + 1]
    /\ UNCHANGED << inputs, runVars, capVars, cPc, slot, results, eventCount, time,
                    inflight, reason, outOfOrder, warned >>

\* runner.ts:400-409: the page calls testScreenshot(e); processEvent runs up to
\* its await of page.screenshot, or returns at once for an unknown event.
\* A page waits for the promise before it calls again (README.md:148).
CallTestScreenshot(p, e) ==
    /\ ProcessRuns
    /\ cPc[p] \in PageLive
    /\ inflight[p] = {}
    /\ IF HasEvent(project(p).scenarios, e)
       THEN /\ Pending + Received + Reported < MaxCalls
            /\ inflight' = [inflight EXCEPT ![p] = {e}]
            /\ warned' = warned
       ELSE /\ inflight' = inflight
            /\ warned' = TRUE
    /\ UNCHANGED << inputs, runVars, capVars, cPc, slot, results, eventCount, time,
                    reason, outOfOrder, errors >>

\* ScreenshotTaken without the assignment of runner.ts:412.
ScreenshotTaken_NotStored(p, e) ==
    /\ ProcessRuns
    /\ e \in inflight[p]
    /\ cPc[p] \in PageLive
    /\ eventCount' = [eventCount EXCEPT ![p] = @ + 1]
    /\ inflight' = [inflight EXCEPT ![p] = @ \ {e}]
    /\ UNCHANGED << inputs, runVars, capVars, cPc, slot, results, time, reason,
                    outOfOrder, warned, errors >>

\* runner.ts:410-416: page.screenshot resolved; the slot is written, then the
\* counter is incremented and the promise given to the page resolves.
ScreenshotTaken(p, e) ==
    /\ ProcessRuns
    /\ e \in inflight[p]
    /\ cPc[p] \in PageLive
    /\ \E image \in Renderings(project(p)) :
           LET index == GetScenario(project(p).scenarios, e)
           IN  results' = IF index = Undefined
                          THEN results    \* results[undefined] = ... adds no element
                          ELSE [results EXCEPT ![p][index + 1] = Screenshot(p, e, image)]
    /\ eventCount' = [eventCount EXCEPT ![p] = @ + 1]
    /\ inflight' = [inflight EXCEPT ![p] = @ \ {e}]
    /\ UNCHANGED << inputs, runVars, capVars, cPc, slot, time, reason, outOfOrder, warned, errors >>

\* runner.ts:406: page.screenshot rejected (the page crashed);
\* processEvent rejects towards the page.
ScreenshotFails(p, e) ==
    /\ ProcessRuns
    /\ e \in inflight[p]
    /\ cPc[p] \in PageLive
    /\ inflight' = [inflight EXCEPT ![p] = @ \ {e}]
    /\ UNCHANGED << inputs, runVars, capVars, cPc, slot, results, eventCount, time,
                    reason, outOfOrder, warned, errors >>

\* ContinueLoop taking the loop up again at the first project after a wait.
ContinueLoop_FromFirst(ctxs) ==
    LET r == RunLoop(0, ctxs, <<>>)
        on(k) == {j \in 1 .. Len(r.started) : r.started[j].index = k}
        of(p) == {j \in 1 .. Len(r.started) : r.started[j].projectId = p}
        binding(p) == r.started[CHOOSE j \in of(p) : TRUE]
    IN  /\ capPc' = r.pc
        /\ capI' = r.i
        /\ starts' = starts \o [j \in 1 .. Len(r.started) |-> r.started[j].projectId]
        /\ contexts' = r.contexts
        /\ result' = [k \in Projects |->
                        IF on(k) # {}
                        THEN r.started[CHOOSE j \in on(k) : \A l \in on(k) : l <= j].projectId
                        ELSE result[k]]
        /\ cPc' = [p \in Projects |-> IF of(p) # {} THEN "setup" ELSE cPc[p]]
        /\ slot' = [p \in Projects |->
                      IF of(p) # {}
                      THEN [freeContext |-> binding(p).freeContext,
                            context |-> binding(p).context]
                      ELSE slot[p]]
        /\ results' = [p \in Projects |->
                         IF of(p) # {} THEN InitResults(project(p).scenarios)
                         ELSE results[p]]
        /\ eventCount' = [p \in Projects |-> IF of(p) # {} THEN 0 ELSE eventCount[p]]
        /\ errors' = [p \in Projects |-> IF of(p) # {} THEN 0 ELSE errors[p]]
        /\ UNCHANGED << inputs, runVars, pngs, time, inflight, reason, outOfOrder, warned >>

\* runner.ts:312-328: _capture runs its loop from the state (i, ctxs) until it
\* awaits; every iteration made starts one capturer, which runs up to its first
\* await (runner.ts:344-375).
ContinueLoop(ctxs) ==
    LET r == RunLoop(capI, ctxs, <<>>)
        on(k) == {j \in 1 .. Len(r.started) : r.started[j].index = k}
        of(p) == {j \in 1 .. Len(r.started) : r.started[j].projectId = p}
        binding(p) == r.started[CHOOSE j \in of(p) : TRUE]
    IN  /\ capPc' = r.pc
        /\ capI' = r.i
        /\ starts' = starts \o [j \in 1 .. Len(r.started) |-> r.started[j].projectId]
        /\ contexts' = r.contexts
        /\ result' = [k \in Projects |->
                        IF on(k) # {}
                        THEN r.started[CHOOSE j \in on(k) : \A l \in on(k) : l <= j].projectId
                        ELSE result[k]]
        /\ cPc' = [p \in Projects |-> IF of(p) # {} THEN "setup" ELSE cPc[p]]
        /\ slot' = [p \in Projects |->
                      IF of(p) # {}
                      THEN [freeContext |-> binding(p).freeContext,
                            context |-> binding(p).context]
                      ELSE slot[p]]
        /\ results' = [p \in Projects |->
                         IF of(p) # {} THEN InitResults(project(p).scenarios)
                         ELSE results[p]]
        /\ eventCount' = [p \in Projects |-> IF of(p) # {} THEN 0 ELSE eventCount[p]]
        /\ errors' = [p \in Projects |-> IF of(p) # {} THEN 0 ELSE errors[p]]
        /\ UNCHANGED << inputs, runVars, pngs, time, inflight, reason, outOfOrder, warned >>

\* runner.ts:301-312: the contexts are created and the loop starts.
ContextsCreated ==
    /\ ProcessRuns
    /\ capPc = "contexts"
    /\ ContinueLoop(CreateContexts(contextsCount))

\* runner.ts:301-309: browser.createBrowserContext() rejects (it is called for
\* every index but the first).
ContextsFail ==
    /\ ProcessRuns
    /\ capPc = "contexts"
    /\ contextsCount > 1
    /\ capPc' = "rejected"
    /\ UNCHANGED << inputs, runVars, capI, starts, contexts, result, pngs, taskVars >>

\* runner.ts:314-317: the debounce timer fires and the loop looks again.
DebounceElapsed ==
    /\ ProcessRuns
    /\ capPc = "wait"
    /\ ContinueLoop(contexts)

\* runner.ts:328: Promise.all(result) settles: it rejects once an entry has
\* rejected, and fulfils once every entry has fulfilled.
CaptureSettles ==
    /\ ProcessRuns
    /\ capPc = "all"
    /\ \/ /\ \E i \in Projects : result[i] # NoTask /\ cPc[result[i]] = "rejected"
          /\ capPc' = "rejected"
          /\ pngs' = pngs
       \/ /\ \A i \in Projects : result[i] # NoTask => cPc[result[i]] = "fulfilled"
          /\ capPc' = "fulfilled"
          /\ pngs' = PromiseAll(result, results)
    /\ UNCHANGED << inputs, runVars, capI, starts, contexts, result, taskVars >>


(***************************************************************************)
(* The comparison pass (runner.ts:208-233, 460-506).                       *)
(***************************************************************************)
\* runner.ts:29-36,208-210: an Error stays as it is, a buffer is decoded.
ParsePNG(data) == [kind |-> "image", image |-> data.image]
Decode(buffers) ==
    [s \in 1 .. Len(buffers) |->
        IF buffers[s].kind = "error" THEN buffers[s] ELSE ParsePNG(buffers[s])]

\* pixelmatch(img1, img2, output, width, height, options) as called at
\* runner.ts:486-490: it throws when the two buffers, or the output buffer,
\* differ in length, or when the length is not that of a width x height
\* image; otherwise it counts the pixels that differ.  `outputLength` is -1
\* for a null output.
PixelMatch(img1, img2, outputLength, width, height) ==
    IF \/ Len(img1) # Len(img2)
       \/ outputLength # -1 /\ outputLength # Len(img1)
       \/ Len(img1) # width * height
    THEN [threw |-> TRUE, count |-> 0, output |-> <<>>]
    ELSE [threw |-> FALSE,
          count |-> Cardinality({i \in 1 .. Len(img1) : img1[i] # img2[i]}),
          output |-> [i \in 1 .. Len(img1) |-> img1[i] # img2[i]]]

\* ExceedsTolerance with >= in place of >.
ExceedsTolerance_OrEqual(count, width, height, tolerance) ==
    count * 1000 >= tolerance * (width * height)

\* runner.ts:491-492, count / (width * height) > tolerance, in thousandths.
ExceedsTolerance(count, width, height, tolerance) ==
    count * 1000 > tolerance * (width * height)

\* RecordError without the failed.push of runner.ts:475.
RecordError_NotPushed(acc, scenario) ==
    [acc EXCEPT !.differences = Append(@, Null)]

\* runner.ts:474-479: the branch of _compare for an Error value.
RecordError(acc, scenario) ==
    [acc EXCEPT !.failed = Append(@, scenario),
                !.differences = Append(@, Null)]

\* DiffBuffer with one element for every column of the reference.
DiffBuffer_OfWidth(computeDifference, reference) ==
    IF computeDifference THEN reference.image.width ELSE -1

\* runner.ts:483-485: the length of the buffer pixelmatch is to fill with the
\* difference image, that of the reference data, or -1 for null.
DiffBuffer(computeDifference, reference) ==
    IF computeDifference THEN Len(reference.image.data) ELSE -1

\* runner.ts:469-503: the loop of _compare from index i on; `acc` holds
\* `failed`, `differences` and whether an exception left the loop.
RECURSIVE CompareFrom(_, _, _, _, _, _)
CompareFrom(i, scenarios, shots, refs, computeDifference, acc) ==
    IF ~(i < Len(shots)) THEN acc
    ELSE
      LET screenshot == shots[i + 1]
          reference == refs[i + 1]
      IN
      IF screenshot.kind = "error" \/ reference.kind = "error"
      THEN CompareFrom(i + 1, scenarios, shots, refs, computeDifference,
                       RecordError(acc, scenarios[i + 1]))
      ELSE
        LET width == screenshot.image.width
            height == screenshot.image.height
            m == PixelMatch(screenshot.image.data, reference.image.data,
                            DiffBuffer(computeDifference, reference), width, height)
        IN
        IF m.threw THEN [acc EXCEPT !.threw = TRUE]
        ELSE IF ExceedsTolerance(m.count, width, height, scenarios[i + 1].tolerance)
        THEN CompareFrom(i + 1, scenarios, shots, refs, computeDifference,
                 [acc EXCEPT !.failed = Append(@, scenarios[i + 1]),
                             !.differences = Append(@,
                                 IF computeDifference
                                 THEN [kind |-> "image",
                                       image |-> Image(width, height, m.output)]
                                 ELSE Null)])
        ELSE CompareFrom(i + 1, scenarios, shots, refs, computeDifference, acc)

\* runner.ts:460-506
Compare(scenarios, shots, refs, computeDifference) ==
    CompareFrom(0, scenarios, shots, refs, computeDifference,
                [failed |-> <<>>, differences |-> <<>>, threw |-> FALSE])

\* SkipsComparison comparing in every mode.
SkipsComparison_Never(mode) == FALSE

\* runner.ts:222, config.mode !== RunnerMode.CaptureAndCompare: the project
\* is left with its empty lists.
SkipsComparison(mode) == mode # "CaptureAndCompare"

\* runner.ts:216-232: the loop over the projects.
CompareAll(shots, refs) ==
    LET one(p) == Compare(project(p).scenarios, shots[p], refs[p],
                          "Difference" \in config.save)
        compared == ~SkipsComparison(config.mode)
    IN  [threw |-> compared /\ \E p \in Projects : one(p).threw,
         failures |-> [p \in Projects |-> IF compared THEN one(p).failed ELSE <<>>],
         differences |-> [p \in Projects |->
                            IF compared THEN one(p).differences ELSE <<>>]]

\* Success looking at the first project only.
Success_FirstOnly(arrays) == Len(arrays[0]) = 0

\* runner.ts:233, failures.findIndex((a) => a.length) === -1
FindIndexNonEmpty(arrays) ==
    IF \E i \in Projects : Len(arrays[i]) > 0
    THEN CHOOSE i \in Projects :
             /\ Len(arrays[i]) > 0
             /\ \A j \in 0 .. (i - 1) : Len(arrays[j]) = 0
    ELSE -1
Success(arrays) == FindIndexNonEmpty(arrays) = -1

\* What the reference files of the projects can be: the PNG of what the page
\* shows, but for at most MaxBadReferences files.
FileChoices ==
    LET all == UNION {{<<p, i>> : i \in 1 .. Len(project(p).scenarios)} : p \in Projects}
        badSets == {B \in SUBSET all : Cardinality(B) <= MaxBadReferences}
        with(f) == [p \in Projects |->
                      [i \in 1 .. Len(project(p).scenarios) |->
                          IF <<p, i>> \in DOMAIN f THEN f[<<p, i>>]
                          ELSE ExpectedReference(project(p))]]
    IN  UNION {{with(f) : f \in [B -> ReferenceFiles]} : B \in badSets}

(***************************************************************************)
(* The command line (cli.ts:122-149) and run (runner.ts:136-273).          *)
(***************************************************************************)
\* utils.ts:68-71 and cli.ts:149: process.exit(code).
Exit(code) ==
    /\ cliPc' = "exited"
    /\ exitStatus' = Num(code)
    /\ logsFile' = logsFile

\* cli.ts:122-123: config.load resolved
ConfigLoaded ==
    /\ cliPc = "load"
    /\ cliPc' = "validate"
    /\ UNCHANGED << inputs, exitStatus, logsFile, runCore, outVars, capVars, taskVars >>

\* cli.ts:124-126: config.load rejected
ConfigLoadFails ==
    /\ cliPc = "load"
    /\ Exit(1)
    /\ UNCHANGED << inputs, runCore, outVars, capVars, taskVars >>

\* config.ts:206-240: validate throws for a configuration with no project;
\* with projects it throws when a scenario has no event or when the stat of
\* a reference folder fails.
ValidateThrows(foldersExist) == N = 0 \/ ~foldersExist

\* cli.ts:130-132: config.validate rejected
ConfigInvalid ==
    /\ cliPc = "validate"
    /\ \E foldersExist \in BOOLEAN : ValidateThrows(foldersExist)
    /\ Exit(1)
    /\ UNCHANGED << inputs, runCore, outVars, capVars, taskVars >>

\* runner.ts:149-188: the loading of the references and the server are
\* started, the number of contexts is computed and the browser is requested.
StartBrowser ==
    /\ \E cpus \in CpuChoices :
           contextsCount' = ContextsCount(N, config.maxContexts, cpus)
    /\ server' = "listening"
    /\ runPc' = "launching"

\* cli.ts:128-137 and runner.ts:137-188: config.validate resolved, the runner
\* is constructed and run() is called; it runs up to the await of mkdirp for
\* the output root when one is configured, else up to that of the browser.
RunStart ==
    /\ cliPc = "validate"
    /\ ~ValidateThrows(TRUE)
    /\ cliPc' = "run"
    /\ IF config.output # Null
       THEN runPc' = "root" /\ UNCHANGED << server, contextsCount >>
       ELSE StartBrowser
    /\ UNCHANGED << inputs, exitStatus, logsFile, browser, runError, files, references, screenshots,
                    failures, differences, success, outVars, capVars, taskVars >>

\* What a path can be on disk: nothing in an existing, writable directory
\* ("absent"), nothing where mkdir cannot make a directory ("orphan": the
\* parent is missing or may not be written), a directory, or a file.
PathKinds == {"absent", "orphan", "directory", "file"}

\* utils.ts:42: stat(path) rejects when there is nothing at the path.
StatRejects(kind) == kind \in {"absent", "orphan"}

\* utils.ts:43, !s.isDirectory: isDirectory is read, not called, and a method
\* is never falsy, whatever the path is.
NotDirectory(kind) == FALSE

\* utils.ts:40-49, mkdirp: whether the promise rejects, and what the path is
\* afterwards.  An exception of the try block, that of line 44 included, is
\* caught at line 46 and mkdir(path) is returned; mkdir makes the directory
\* when there is nothing at the path and its parent allows it, else rejects.
Mkdirp(kind) ==
    IF StatRejects(kind) \/ NotDirectory(kind)
    THEN [rejects |-> kind # "absent",
          after |-> IF kind = "absent" THEN "directory" ELSE kind]
    ELSE [rejects |-> FALSE, after |-> kind]

\* runner.ts:146-188: mkdirp of the output root resolved
OutputRootMade ==
    /\ runPc = "root"
    /\ ~Mkdirp(outputRoot).rejects
    /\ outputRoot' = Mkdirp(outputRoot).after
    /\ StartBrowser
    /\ UNCHANGED << inputs, cliVars, browser, runError, files, references, screenshots,
                    failures, differences, success, folders, saved, capVars, taskVars >>

\* run() rejects with `error`; cli.ts:138-140 then exits with 1.
RunRejects(error) ==
    /\ runPc' = "rejected"
    /\ runError' = error
    /\ Exit(1)

\* runner.ts:146 and utils.ts:40-49: mkdirp of the output root rejected (its
\* parent does not exist, or may not be written); nothing catches it.
OutputRootFails ==
    /\ runPc = "root"
    /\ Mkdirp(outputRoot).rejects
    /\ RunRejects(Rejection("mkdirp"))
    /\ UNCHANGED << inputs, server, browser, contextsCount, files, references,
                    screenshots, failures, differences, success, outVars, capVars,
                    taskVars >>

\* runner.ts:188-198
BrowserLaunched ==
    /\ runPc = "launching"
    /\ browser' = "open"
    /\ runPc' = "version"
    /\ UNCHANGED << inputs, cliVars, server, contextsCount, runError, files, references,
                    screenshots, failures, differences, success, outVars, capVars,
                    taskVars >>

\* runner.ts:188, the launch rejects: run() rejects
LaunchFails ==
    /\ runPc = "launching"
    /\ RunRejects(Rejection("launch"))
    /\ UNCHANGED << inputs, server, browser, contextsCount, files, references,
                    screenshots, failures, differences, success, outVars, capVars,
                    taskVars >>

\* runner.ts:198-206 and 297-309: browser.version() resolves, _capture is
\* called and runs up to its await of the contexts, run() awaits the references.
CaptureStarted ==
    /\ runPc = "version"
    /\ runPc' = "capturing"
    /\ capPc' = "contexts"
    /\ UNCHANGED << inputs, cliVars, server, browser, contextsCount, runError, files,
                    references, screenshots, failures, differences, success, outVars,
                    capI, starts, contexts, result, pngs, taskVars >>

\* runner.ts:198, browser.version() rejects: run() rejects
VersionFails ==
    /\ runPc = "version"
    /\ RunRejects(Rejection("browser.version"))
    /\ UNCHANGED << inputs, server, browser, contextsCount, files, references,
                    screenshots, failures, differences, success, outVars, capVars,
                    taskVars >>

\* runner.ts:207: the promise of _capture rejected: run() rejects
CaptureRejected ==
    /\ runPc = "capturing"
    /\ capPc = "rejected"
    /\ RunRejects(Rejection("capture"))
    /\ UNCHANGED << inputs, server, browser, contextsCount, files, references,
                    screenshots, failures, differences, success, outVars, capVars,
                    taskVars >>

\* runner.ts:272 and cli.ts:137-149: run() returns `value`; the command line
\* exits unless the logs are to be saved, then saveLogs runs up to its await.
Return(value) ==
    /\ runPc' = "returned"
    /\ IF config.logs = Null
       THEN Exit(IF value THEN 0 ELSE 1)
       ELSE cliPc' = "logs" /\ UNCHANGED << exitStatus, logsFile >>

\* runner.ts:237-242: whether run() calls mkdirp for the output folder of project p.
MkdirNeeded(p, fails) ==
    /\ config.save # {}
    /\ config.output # Null
    /\ (Len(fails[p]) > 0 \/ "SuccessAndFailures" \in config.save)

\* Save taking the data at the position of the scenario in the list it is given.
Save_ByPosition(p, scenarios, buffers) ==
    {[project |-> p, kind |-> "png", index |-> scenarios[k].index,
      data |-> buffers[k]] :
        k \in {j \in 1 .. Len(scenarios) : buffers[j].kind # "error"}}

\* runner.ts:519-539, save: the files writeFile is called for; `index` names
\* the scenario whose reference gives the file its name, `data` is what is
\* written.
Save(p, scenarios, buffers) ==
    {[project |-> p, kind |-> "png", index |-> scenarios[k].index,
      data |-> buffers[scenarios[k].index + 1]] :
        k \in {j \in 1 .. Len(scenarios) :
                  buffers[scenarios[j].index + 1].kind # "error"}}

\* runner.ts:556-586, saveDifferences: the files a write stream is opened
\* for; `diffs` is read at scenario.index, and a missing element is undefined.
SaveDifferences(p, scenarios, diffs) ==
    {[project |-> p, kind |-> "diff", index |-> scenarios[k].index,
      data |-> diffs[scenarios[k].index + 1]] :
        k \in {j \in 1 .. Len(scenarios) :
                  /\ scenarios[j].index + 1 <= Len(diffs)
                  /\ diffs[scenarios[j].index + 1] # Null}}

\* runner.ts:251-266: the writes run() starts.
Writes(fails, diffs) ==
    LET shots(p) ==
            IF "SuccessAndFailures" \in config.save
            THEN Save(p, project(p).scenarios, pngs[p + 1])
            ELSE IF "Failure" \in config.save
            THEN Save(p, fails[p], pngs[p + 1])
            ELSE {}
        images(p) ==
            IF "Difference" \in config.save
            THEN SaveDifferences(p, fails[p], diffs[p])
            ELSE {}
    IN  UNION {shots(p) \cup images(p) : p \in Projects}

\* runner.ts:248-272: the output folders are settled; the writes are started
\* and awaited, and with none of them run() returns in the same turn.
StartSaves(fails, diffs) ==
    IF Writes(fails, diffs) = {}
    THEN Return(Success(fails))
    ELSE runPc' = "saving" /\ UNCHANGED cliVars

\* CapturesCompared without the browser.close() of runner.ts:213.
CapturesCompared_BrowserOpen ==
    /\ runPc = "capturing"
    /\ capPc = "fulfilled"
    /\ \E fs \in FileChoices :
         LET refs == [p \in Projects |-> LoadReferences(fs[p])]
             shots == [p \in Projects |-> Decode(pngs[p + 1])]
             c == CompareAll(shots, refs)
         IN  /\ files' = fs
             /\ references' = refs
             /\ screenshots' = shots
             /\ failures' = c.failures
             /\ differences' = c.differences
             /\ success' = Success(c.failures)
             /\ IF c.threw
                THEN RunRejects(Rejection("pixelmatch"))
                ELSE /\ runError' = runError
                     /\ IF \E p \in Projects : MkdirNeeded(p, c.failures)
                        THEN runPc' = "mkdir" /\ UNCHANGED cliVars
                        ELSE StartSaves(c.failures, c.differences)
    /\ server' = "closed"
    /\ browser' = browser
    /\ UNCHANGED << inputs, contextsCount, outVars, capVars, taskVars >>

\* runner.ts:206-248: the references and the captures are there; the captures
\* are decoded, server and browser are closed, the projects are compared and
\* the output folders requested.  An exception of _compare makes run() reject.
CapturesCompared ==
    /\ runPc = "capturing"
    /\ capPc = "fulfilled"
    /\ \E fs \in FileChoices :
         LET refs == [p \in Projects |-> LoadReferences(fs[p])]
             shots == [p \in Projects |-> Decode(pngs[p + 1])]
             c == CompareAll(shots, refs)
         IN  /\ files' = fs
             /\ references' = refs
             /\ screenshots' = shots
             /\ failures' = c.failures
             /\ differences' = c.differences
             /\ success' = Success(c.failures)
             /\ IF c.threw
                THEN RunRejects(Rejection("pixelmatch"))
                ELSE /\ runError' = runError
                     /\ IF \E p \in Projects : MkdirNeeded(p, c.failures)
                        THEN runPc' = "mkdir" /\ UNCHANGED cliVars
                        ELSE StartSaves(c.failures, c.differences)
    /\ server' = "closed"
    /\ browser' = "closed"
    /\ UNCHANGED << inputs, contextsCount, outVars, capVars, taskVars >>

\* runner.ts:243-270 and utils.ts:40-49: every mkdirp of an output folder
\* settled, a rejection being logged; the writes are started.  No folder can
\* be made inside a file.
OutputFoldersMade ==
    /\ runPc = "mkdir"
    /\ \E outcome \in [Projects -> IF outputRoot = "file" THEN {"failed"}
                                    ELSE {"made", "failed"}] :
           folders' = [p \in Projects |->
                          IF MkdirNeeded(p, failures) THEN outcome[p] ELSE "none"]
    /\ StartSaves(failures, differences)
    /\ UNCHANGED << inputs, server, browser, contextsCount, runError, files, references,
                    screenshots, failures, differences, success, outputRoot, saved,
                    capVars, taskVars >>

\* runner.ts:270-272, 530-535 and 569-576: every write settled, a failure
\* being logged; `saved` are the files written.  No file is written into a
\* folder that could not be made.  run() returns `success`.
RunReturns ==
    /\ runPc = "saving"
    /\ \E written \in SUBSET {w \in Writes(failures, differences) :
                                 folders[w.project] # "failed"} :
           saved' = written
    /\ Return(success)
    /\ UNCHANGED << inputs, server, browser, contextsCount, runError, files, references,
                    screenshots, failures, differences, success, outputRoot, folders,
                    capVars, taskVars >>

\* LogsSaveFails exiting with the code run() gave.
LogsSaveFails_KeepsExitCode ==
    /\ cliPc = "logs"
    /\ cliPc' = "exited"
    /\ exitStatus' = Num(IF success THEN 0 ELSE 1)
    /\ logsFile' = "failed"
    /\ UNCHANGED << inputs, runCore, outVars, capVars, taskVars >>

\* cli.ts:145-147 and utils.ts:68-71: saveLogs rejected (mkdirp or writeFile)
LogsSaveFails ==
    /\ cliPc = "logs"
    /\ cliPc' = "exited"
    /\ exitStatus' = Num(1)
    /\ logsFile' = "failed"
    /\ UNCHANGED << inputs, runCore, outVars, capVars, taskVars >>

\* cli.ts:143-149 and runner.ts:281-288: saveLogs resolved
LogsSaved ==
    /\ cliPc = "logs"
    /\ cliPc' = "exited"
    /\ exitStatus' = Num(IF success THEN 0 ELSE 1)
    /\ logsFile' = "written"
    /\ UNCHANGED << inputs, runCore, outVars, capVars, taskVars >>

(***************************************************************************)
(* The specification.                                                      *)
(***************************************************************************)
\* cli.ts:110-120: the save modes the three flags can give.
SaveModes == (SUBSET {"Failure", "SuccessAndFailures", "Difference"}) \ {{}}

\* The configurations run: capture-and-compare with every --max-contexts
\* argument (of more than two projects: with --max-contexts 1, one after
\* the other)
\* and capture-only (of two projects at most) with none, nothing
\* being saved; with no project;
\* with one project in watch mode, with --logs, with every save mode with and
\* without --output, and capture-only with --save; with one project whose
\* scenarios share an event.
Configs ==
    LET none == [given |-> FALSE]
        c(n, arg, mode, save, output, watch, logs) ==
            [projects |-> [i \in 1 .. n |-> Project(i - 1)],
             maxContexts |-> CliMaxContexts(arg),
             mode |-> mode,
             save |-> save,
             output |-> output,
             watch |-> watch,
             logs |-> logs]
        plain(n, arg, mode) == c(n, arg, mode, {}, Null, FALSE, Null)
        one(save, output, watch, logs) ==
            c(1, none, "CaptureAndCompare", save, output, watch, logs)
        args(n) == IF n <= 2 THEN CliArgs
                   ELSE {[given |-> TRUE, parsed |-> Num(1)]}
    IN  UNION {{plain(n, arg, "CaptureAndCompare") : arg \in args(n)} : n \in 1 .. MaxProjects}
          \cup {plain(n, none, "Capture") : n \in 0 .. Min(MaxProjects, 2)}
          \cup {one({}, Null, TRUE, Null), one({}, Null, FALSE, Path("logs.txt"))}
          \cup {one(save, output, FALSE, Null) : save \in SaveModes, output \in {Null, Path("out")}}
          \cup {c(1, none, "Capture", {"SuccessAndFailures"}, Null, FALSE, Null)}
          \cup {[plain(1, none, "CaptureAndCompare") EXCEPT !.projects = << TwinProject >>]}

RunnerInit ==
    /\ config \in Configs
    /\ cliPc = "load"
    /\ exitStatus = Null
    /\ logsFile = "none"
    /\ runPc = "idle"
    /\ runError = Null
    /\ server = "none"
    /\ browser = "none"
    /\ contextsCount = 0
    /\ capPc = "idle"
    /\ capI = 0
    /\ starts = <<>>
    /\ contexts = <<>>
    /\ result = [p \in Projects |-> NoTask]
    /\ pngs = <<>>
    /\ cPc = [p \in Projects |-> "idle"]
    /\ slot = [p \in Projects |-> [freeContext |-> -1, context |-> Null]]
    /\ results = [p \in Projects |-> <<>>]
    /\ eventCount = [p \in Projects |-> 0]
    /\ time = [p \in Projects |-> 0]
    /\ inflight = [p \in Projects |-> {}]
    /\ reason = [p \in Projects |-> Null]
    /\ outOfOrder = FALSE
    /\ warned = FALSE
    /\ errors = [p \in Projects |-> 0]
    /\ files = [p \in Projects |-> <<>>]
    /\ references = [p \in Projects |-> <<>>]
    /\ screenshots = [p \in Projects |-> <<>>]
    /\ failures = [p \in Projects |-> <<>>]
    /\ differences = [p \in Projects |-> <<>>]
    /\ success = TRUE
    /\ outputRoot \in (IF config.output = Null THEN {"none"} ELSE PathKinds)
    /\ folders = [p \in Projects |-> "none"]
    /\ saved = {}

Init ==
    /\ RunnerInit
    /\ cmp = Null
    /\ fid = Null

Next ==
    \/ ConfigLoaded \/ ConfigLoadFails \/ ConfigInvalid
    \/ RunStart \/ OutputRootMade \/ OutputRootFails
    \/ BrowserLaunched \/ LaunchFails \/ CaptureStarted \/ VersionFails
    \/ CaptureRejected \/ CapturesCompared \/ OutputFoldersMade \/ RunReturns
    \/ LogsSaved \/ LogsSaveFails
    \/ ContextsCreated \/ ContextsFail \/ DebounceElapsed \/ CaptureSettles
    \/ \E p \in Projects : PageReady(p)
    \/ \E p \in Projects : SetupFails(p)
    \/ \E p \in Projects : Navigated(p)
    \/ \E p \in Projects : WatchEnds(p)
    \/ \E p \in Projects : WatchFails(p)
    \/ \E p \in Projects : NavigationFails(p)
    \/ \E p \in Projects : PollWake(p)
    \/ \E p \in Projects : PageClosed(p)
    \/ \E p \in Projects : PageCloseFails(p)
    \/ \E p \in Projects, e \in Events : CallTestScreenshot(p, e)
    \/ \E p \in Projects, e \in Events : ScreenshotTaken(p, e)
    \/ \E p \in Projects, e \in Events : ScreenshotFails(p, e)
    \/ \E p \in Projects : PageError(p)

Spec == Init /\ [][Next]_vars

(***************************************************************************)
(* The comparators on their own: compare of the RMSE runner                *)
(* (dist/runner.d.ts:280-312, called by _runTests) and the pixel count of  *)
(* _compare (runner.ts:482-492).                                           *)
(***************************************************************************)
\* Image data as the comparators read it: four channels for every pixel.
ChannelValues == {0, 255}
\* The same image with channel k inverted, and with width and height exchanged.
Inverted(image, k) ==
    [image EXCEPT !.data = [image.data EXCEPT ![k] = 255 - @]]
Transposed(image) ==
    [image EXCEPT !.width = image.height, !.height = image.width]
\* The same image with one more column, and with one more row, of zeroes.
Widened(image) ==
    Image(image.width + 1, image.height,
          image.data \o [i \in 1 .. (4 * image.height) |-> 0])
Heightened(image) ==
    Image(image.width, image.height + 1,
          image.data \o [i \in 1 .. (4 * image.width) |-> 0])

\* BasicSquareErrorDistance reading the red channel of `data` one place too far.
BasicSquareErrorDistance_Misaligned(data, expected, index) ==
    LET r == expected[index + 1] - data[index + 2]
        g == expected[index + 2] - data[index + 2]
        b == expected[index + 3] - data[index + 3]
        a == expected[index + 4] - data[index + 4]
    IN  r * r + g * g + b * b + a * a

\* dist/runner.d.ts:280-286; `index` counts from 0 as in the source.
BasicSquareErrorDistance(data, expected, index) ==
    LET r == expected[index + 1] - data[index + 1]
        g == expected[index + 2] - data[index + 2]
        b == expected[index + 3] - data[index + 3]
        a == expected[index + 4] - data[index + 4]
    IN  r * r + g * g + b * b + a * a

\* dist/runner.d.ts:301-309: squareSum and max after the loop from pixel i on.
RECURSIVE SquareErrors(_, _, _, _, _)
SquareErrors(image, expected, pixels, i, acc) ==
    IF ~(i < pixels) THEN acc
    ELSE LET dist == BasicSquareErrorDistance(image.data, expected.data, i * 4)
         IN  SquareErrors(image, expected, pixels, i + 1,
                          [squareSum |-> acc.squareSum + dist,
                           max |-> IF dist > acc.max THEN dist ELSE acc.max])

\* DimensionsDiffer looking at the widths only.
DimensionsDiffer_WidthOnly(image, expected) ==
    image.width # expected.width

\* part_009:27, dist/runner.d.ts:296: the test in front of the throw.
DimensionsDiffer(image, expected) ==
    image.width # expected.width \/ image.height # expected.height

\* dist/runner.d.ts:294-312, compare: it throws when the dimensions differ;
\* the rmse it returns is the square root of squareSum / pixels.
RmseCompare(image, expected) ==
    IF DimensionsDiffer(image, expected)
    THEN [threw |-> TRUE, squareSum |-> 0, pixels |-> 0, max |-> 0]
    ELSE LET pixels == image.width * image.height
             e == SquareErrors(image, expected, pixels, 0, [squareSum |-> 0, max |-> 0])
         IN  [threw |-> FALSE, squareSum |-> e.squareSum, pixels |-> pixels, max |-> e.max]

\* part_010:218-220: res.rmse > tolerance || res.max > perPixelTolerance, the
\* tolerance in thousandths and not negative: sqrt(s / n) > t / 1000 exactly
\* when s * 1000000 > t * t * n, that is, s being an integer, when s exceeds
\* the integer part of t * t * n / 1000000.
RmseFailed(res, tolerance, perPixelTolerance) ==
    \/ res.squareSum > (tolerance * tolerance * res.pixels) \div 1000000
    \/ res.max > perPixelTolerance

\* An image as pixelmatch reads its data, four channels at a time.
PixelsOf(image) ==
    [image EXCEPT !.data =
        [i \in 1 .. (Len(image.data) \div 4) |->
            << image.data[4 * i - 3], image.data[4 * i - 2],
               image.data[4 * i - 1], image.data[4 * i] >>]]

\* The arguments a comparator is applied to: an image and, as the expected
\* one, the image itself, the image with one channel inverted or the image
\* with its dimensions exchanged.
Comparison(image, expected, tolerance, perPixelTolerance) ==
    [pc |-> "ready", image |-> image, expected |-> expected,
     tolerance |-> tolerance, perPixelTolerance |-> perPixelTolerance,
     result |-> Null]
ExpectedChoices(image) ==
    {image, Inverted(image, 1), Inverted(image, 4 * image.width), Transposed(image),
     Widened(image), Heightened(image)}

\* part_010:218-230: compare is called and the scenario has failed when the
\* mean or the maximum exceeds its tolerance (an exception leaves _runTests).
RmseCompared ==
    /\ cmp # Null
    /\ cmp.pc = "ready"
    /\ LET res == RmseCompare(cmp.image, cmp.expected)
       IN  cmp' = [cmp EXCEPT
                     !.pc = "rmse",
                     !.result = [threw |-> res.threw,
                                 difference |-> res.squareSum,
                                 max |-> res.max,
                                 failed |-> ~res.threw /\
                                     RmseFailed(res, cmp.tolerance, cmp.perPixelTolerance)]]
    /\ UNCHANGED << config, fid, runVars, capVars, taskVars >>

\* runner.ts:460-506: _compare is called for one scenario with the image as
\* screenshot and the expected image as reference.
PixelCompared ==
    /\ cmp # Null
    /\ cmp.pc = "ready"
    /\ LET screenshot == PixelsOf(cmp.image)
           reference == PixelsOf(cmp.expected)
           m == PixelMatch(screenshot.data, reference.data, -1,
                           screenshot.width, screenshot.height)
           c == Compare(<< Scenario(0, "a", cmp.tolerance) >>,
                        << [kind |-> "image", image |-> screenshot] >>,
                        << [kind |-> "image", image |-> reference] >>, FALSE)
       IN  cmp' = [cmp EXCEPT
                     !.pc = "pixels",
                     !.result = [threw |-> c.threw,
                                 difference |-> m.count,
                                 max |-> 0,
                                 failed |-> c.failed # <<>>]]
    /\ UNCHANGED << config, fid, runVars, capVars, taskVars >>

\* The comparators are applied to images the runner is not running on.
CompareInit ==
    /\ RunnerInit
    /\ N = 0
    /\ fid = Null
    /\ \E w \in 1 .. MaxPixels, tolerance \in {0, 500}, perPixelTolerance \in {0, 1} :
         \E d \in [1 .. (4 * w) -> ChannelValues] :
           \E expected \in ExpectedChoices(Image(w, 1, d)) :
               cmp = Comparison(Image(w, 1, d), expected, tolerance, perPixelTolerance)

CompareNext == RmseCompared \/ PixelCompared

CompareSpec == CompareInit /\ [][CompareNext]_vars


(***************************************************************************)
(* Properties of the context pool (_capture).                              *)
(***************************************************************************)
\* Capturers started and not yet settled.
Active == {p \in Projects : cPc[p] \in Running}

C2_NoStarvation ==
    capPc = "wait" =>
        \/ FindFreeContext(contexts) # -1
        \/ Active # {}

\* C3: once _capture has fulfilled, the i-th entry of its value is the array
\* projects[i]'s capturer returned: one entry per scenario of projects[i], a
\* screenshot taken of projects[i] for that scenario's event or its placeholder.
C3_ResultIdentity ==
    capPc = "fulfilled" =>
        \A i \in Projects :
            /\ pngs[i + 1] = results[i]
            /\ Len(pngs[i + 1]) = Len(project(i).scenarios)
            /\ \A s \in 1 .. Len(pngs[i + 1]) :
                   \/ pngs[i + 1][s] = NotDispatched(project(i).scenarios[s].event)
                   \/ /\ pngs[i + 1][s].kind = "png"
                      /\ pngs[i + 1][s].project = i
                      /\ pngs[i + 1][s].event = project(i).scenarios[s].event

\* C3 witness: _capture fulfilled after a project settled before one of a
\* lower index, and the last project holds a screenshot.
C3_OutOfOrderCompletion ==
    /\ capPc = "fulfilled"
    /\ outOfOrder
    /\ N >= 2
    /\ pngs[N][1].kind = "png"

\* C4: a slot of `contexts` is busy (null) exactly while a capturer started on
\* it has not settled, whether that capturer fulfils or rejects; a free slot
\* holds its own context again.
C4_BusyWhileRunning ==
    \A s \in 1 .. Len(contexts) :
        /\ contexts[s] = Null <=>
               \E p \in Projects : cPc[p] \in Running /\ slot[p].freeContext = s - 1
        /\ contexts[s] # Null => contexts[s] = Context(s - 1)

\* C4 witness: the slot of a rejected capturer was freed and is in use again.
C4_FreedAfterRejection ==
    \E p, q \in Projects :
        /\ cPc[p] = "rejected"
        /\ cPc[q] \in Running
        /\ slot[q].freeContext = slot[p].freeContext
        /\ contexts[slot[p].freeContext + 1] = Null

(***************************************************************************)
(* Properties of a capturer (_captureProjectScreenshots).                  *)
(***************************************************************************)
\* C5: from its initialisation on, every scenario slot of a capturer holds
\* the placeholder error of its scenario's event or a screenshot, never null;
\* no more slots hold a screenshot than events were received, so the slot of
\* an event that never arrived holds the placeholder when the array is returned.
C5_SlotsWellTyped ==
    \A p \in Projects :
        cPc[p] \in Running \cup Settled =>
            /\ Len(results[p]) = Len(project(p).scenarios)
            /\ \A i \in 1 .. Len(results[p]) :
                   /\ results[p][i] # NullSlot
                   /\ \/ results[p][i] = NotDispatched(project(p).scenarios[i].event)
                      \/ results[p][i].kind = "png"
            /\ Cardinality({i \in 1 .. Len(results[p]) : results[p][i].kind = "png"})
                   <= eventCount[p]

\* C5 witness: a capturer of two scenarios returned after one event (its
\* waiting loop ended by the timeout) with the screenshot of "a" and the
\* placeholder of "b".
C5_TimedOutWithPlaceholder ==
    \E p \in Projects :
        /\ cPc[p] = "fulfilled"
        /\ eventCount[p] = 1
        /\ Len(results[p]) = 2
        /\ results[p][1].kind = "png"
        /\ results[p][2] = NotDispatched("b")

(***************************************************************************)
(* Properties of run().                                                    *)
(***************************************************************************)
\* run() went through the comparison pass (runner.ts:216-233).
Compared ==
    \/ runPc \in {"mkdir", "saving", "returned"}
    \/ runPc = "rejected" /\ capPc = "fulfilled"

\* C6: in capture-and-compare mode, when the first project (events a and b)
\* got its screenshot of a and b never fired before the timeout, run() does
\* not throw, scenario b is recorded as failed and run() returns false.
C6_MissingEventFailsScenario ==
    ( /\ Compared
      /\ config.mode = "CaptureAndCompare"
      /\ pngs[1][1].kind = "png"
      /\ pngs[1][2] = NotDispatched("b") ) =>
        /\ runPc # "rejected"
        /\ \E k \in 1 .. Len(failures[0]) : failures[0][k].event = "b"
        /\ ~success

\* C7: when run() returns in capture-and-compare mode, it returns true
\* exactly when the comparison pass recorded no failed scenario in any project.
C7_TrueIffNoFailure ==
    (runPc = "returned" /\ config.mode = "CaptureAndCompare") =>
        (success <=> \A p \in Projects : failures[p] = <<>>)

\* C7 witness: run() returned false with the one failed scenario in the
\* second project.
C7_FailureInSecondProject ==
    /\ runPc = "returned"
    /\ config.mode = "CaptureAndCompare"
    /\ N = 2
    /\ failures[0] = <<>>
    /\ Len(failures[1]) = 1
    /\ ~success

\* C8: when run() rejects after the HTTP server was started, the server is
\* closed and the browser, if it was launched, is closed.
C8_TeardownOnReject ==
    (runPc = "rejected" /\ server # "none") => server = "closed" /\ browser # "open"

\* C9: when page.goto is all that rejected in the capturers, run() does not
\* reject.
C9_NavigationFailureNotFatal ==
    LET failed == {p \in Projects : cPc[p] = "rejected"}
    IN  (failed # {} /\ \A p \in failed : reason[p] = Rejection("page.goto"))
            => runPc # "rejected"

\* C10: when a screenshot and its reference differ in width or height, the
\* comparison pass records the scenario as failed, run() does not throw and
\* returns false.
C10_DimensionMismatchFails ==
    Compared /\ config.mode = "CaptureAndCompare" =>
        \A p \in Projects : \A i \in 1 .. Len(screenshots[p]) :
            ( /\ screenshots[p][i].kind = "image"
              /\ references[p][i].kind = "image"
              /\ \/ screenshots[p][i].image.width # references[p][i].image.width
                 \/ screenshots[p][i].image.height # references[p][i].image.height ) =>
                /\ runPc # "rejected"
                /\ \E k \in 1 .. Len(failures[p]) :
                       failures[p][k] = project(p).scenarios[i]
                /\ ~success


(***************************************************************************)
(* Properties of the comparison pass (_compare).                           *)
(***************************************************************************)
\* Pixels at which two buffers of the same length differ.
DifferingPixels(a, b) == {k \in 1 .. Len(a) : a[k] # b[k]}

C14_ErrorFailsOnce ==
    (Compared /\ runPc # "rejected" /\ config.mode = "CaptureAndCompare") =>
        \A p \in Projects :
            LET at(i) == {j \in 1 .. Len(failures[p]) :
                              failures[p][j] = project(p).scenarios[i]}
                isError(i) == \/ screenshots[p][i].kind = "error"
                              \/ references[p][i].kind = "error"
            IN  /\ \A i \in 1 .. Len(screenshots[p]) :
                       isError(i) =>
                           /\ Cardinality(at(i)) = 1
                           /\ \A j \in at(i) : differences[p][j] = Null
                /\ \A i \in 1 .. Len(screenshots[p]) : Cardinality(at(i)) <= 1
                /\ Len(differences[p]) = Len(failures[p])

\* C14 witness: the reference of scenario a is an Error and scenario b, after
\* it, was compared and passed: the failed list holds a alone.
C14_ErrorThenCompared ==
    /\ runPc = "returned"
    /\ config.mode = "CaptureAndCompare"
    /\ references[0][1].kind = "error"
    /\ screenshots[0][1].kind = "image"
    /\ screenshots[0][2].kind = "image"
    /\ references[0][2].kind = "image"
    /\ failures[0] = << project(0).scenarios[1] >>


(***************************************************************************)
(* Properties of processEvent.                                             *)
(***************************************************************************)
\* C16: the call testScreenshot(e) of a declared event resolves (the step
\* that increments eventCount and ends the call) only with the screenshot
\* stored in the slot of e; and a slot changes only by receiving the
\* screenshot taken for a pending call of its own event.
C16_StoredBeforeResolved ==
    [][\A p \in Projects :
          LET scenarios == project(p).scenarios
          IN  cPc[p] \in Running /\ cPc'[p] \in Running =>
                /\ eventCount'[p] # eventCount[p] =>
                       \E e \in inflight[p] :
                           /\ e \notin inflight'[p]
                           /\ \E i \in 1 .. Len(scenarios) :
                                  /\ scenarios[i].event = e
                                  /\ results'[p][i].kind = "png"
                                  /\ results'[p][i].event = e
                /\ \A i \in 1 .. Len(scenarios) :
                       results'[p][i] # results[p][i] =>
                           /\ scenarios[i].event \in inflight[p]
                           /\ results'[p][i].kind = "png"
                           /\ results'[p][i].event = scenarios[i].event]_vars

\* C16 witness: the call for event b has resolved: its screenshot is stored
\* and no call is pending.
C16_CallResolved ==
    \E p \in Projects :
        /\ cPc[p] \in Running
        /\ Len(results[p]) = 2
        /\ results[p][2].kind = "png"
        /\ results[p][2].event = "b"
        /\ eventCount[p] >= 1
        /\ inflight[p] = {}

\* C17: a duplicate arrival of an event does not increment the counter of
\* received events: the counter of a capturer is the number of its slots that
\* hold a screenshot.
C17_DuplicateNotCounted ==
    \A p \in Projects :
        cPc[p] \in Running =>
            eventCount[p] =
                Cardinality({i \in 1 .. Len(results[p]) : results[p][i].kind = "png"})


\* C18: the arrival of an event id that no scenario of the project declares
\* (the step that prints the warning) takes no screenshot and leaves every
\* result slot, the counters, the capturers and run() as they are; and no
\* screenshot is ever pending for an undeclared event.
C18_UnknownEventIgnored ==
    [][/\ warned' # warned =>
             UNCHANGED << results, eventCount, inflight, cPc, time, reason, capVars,
                          runVars >>
       /\ \A p \in Projects : \A e \in inflight'[p] :
              \E i \in 1 .. Len(project(p).scenarios) : project(p).scenarios[i].event = e
      ]_vars

\* C18 witness: an undeclared event arrived and run() returned true with
\* every scenario compared.
C18_UnknownEventAndPass ==
    /\ warned
    /\ runPc = "returned"
    /\ config.mode = "CaptureAndCompare"
    /\ success
    /\ \A p \in Projects : \A i \in 1 .. Len(screenshots[p]) :
           screenshots[p][i].kind = "image"

C19_BlocksOnlyAfterEvent ==
    \A p \in Projects :
        cPc[p] = "watching" => (eventCount[p] > 0 \/ inflight[p] # {})

\* C20: no failure to create an output directory, the root or that of a
\* project, and no failed write makes run() reject, and the value run() returns
\* is the one the comparison decided.
C20_OutputFailureNotFatal ==
    /\ runError # Rejection("mkdirp")
    /\ runPc = "returned" => (success <=> \A p \in Projects : failures[p] = <<>>)

(***************************************************************************)
(* Properties of loadReferences.                                           *)
(***************************************************************************)
\* C13: once the references are loaded, every project has one entry per
\* scenario, in the order of the scenarios; the entry of a file that could not
\* be read or decoded is an Error, and every other entry is the decoded image
\* of its own file, whatever happened to the other files.
C13_OneResultPerReference ==
    Compared =>
        \A p \in Projects :
            /\ Len(references[p]) = Len(project(p).scenarios)
            /\ Len(files[p]) = Len(project(p).scenarios)
            /\ \A i \in 1 .. Len(references[p]) :
                   /\ references[p][i].kind = "error" <=> files[p][i].kind # "png"
                   /\ files[p][i].kind = "png" =>
                          references[p][i] = [kind |-> "image", image |-> files[p][i].image]

\* C13 witness: the reference of the first scenario is missing and that of the
\* second scenario of the same project was decoded.
C13_MissingBesideDecoded ==
    /\ Compared
    /\ files[0][1].kind = "missing"
    /\ references[0][1].kind = "error"
    /\ Len(references[0]) = 2
    /\ references[0][2].kind = "image"

(***************************************************************************)
(* Properties of the comparators.                                          *)
(***************************************************************************)
\* C12: comparing an image with itself does not throw, finds no difference
\* (squared error sum 0, hence rmse 0, and maximum 0 in the RMSE comparator; 0
\* differing pixels in the pixel count) and passes, whatever the tolerance and
\* the per-pixel tolerance, neither being negative.
C12_SelfComparePasses ==
    (cmp # Null /\ cmp.pc # "ready" /\ cmp.image = cmp.expected) =>
        /\ ~cmp.result.threw
        /\ cmp.result.difference = 0
        /\ cmp.result.max = 0
        /\ ~cmp.result.failed

\* C12 witness: an image of two pixels whose channels are not all equal was
\* compared with itself by the RMSE comparator at tolerance 0.
C12_SelfComparedAtZeroTolerance ==
    /\ cmp # Null
    /\ cmp.pc = "rmse"
    /\ cmp.image = cmp.expected
    /\ cmp.image.width = 2
    /\ cmp.image.data[1] # cmp.image.data[2]
    /\ cmp.tolerance = 0
    /\ cmp.perPixelTolerance = 0
    /\ ~cmp.result.failed

(***************************************************************************)
(* Properties of mkdirp.                                                   *)
(***************************************************************************)
\* C21: once run() is past its mkdirp of the output root, a root that exists
\* and is a file has made mkdirp, hence run(), reject, and a root that is a
\* directory (it was one, or there was nothing and it was created) has not.
C21_MkdirpRejectsFile ==
    runPc \notin {"idle", "root"} =>
        /\ outputRoot = "file" => runError = Rejection("mkdirp")
        /\ outputRoot = "directory" => runError # Rejection("mkdirp")

(***************************************************************************)
(* Properties of the files written (save, saveDifferences).                *)
(***************************************************************************)
\* The comparison pass went through: run() is at or past its output folders.
ComparedThrough == runPc \in {"mkdir", "saving", "returned"}

\* C22: with only the save-on-failure bit set, the screenshots run() writes
\* are those of the failed scenarios whose capture is a screenshot, each under
\* the name of its scenario and with the capture stored at that scenario's own
\* index; nothing else is written, and nothing for a scenario that passed.
C22_FailedScreenshotsSaved ==
    (ComparedThrough /\ config.save = {"Failure"}) =>
        LET failed(p) == {i \in 1 .. Len(project(p).scenarios) :
                            \E j \in 1 .. Len(failures[p]) :
                                failures[p][j] = project(p).scenarios[i]}
            expected == UNION {{[project |-> p, kind |-> "png", index |-> i - 1,
                                 data |-> results[p][i]] :
                                   i \in {k \in failed(p) : results[p][k].kind = "png"}} :
                               p \in Projects}
        IN  /\ Writes(failures, differences) = expected
            /\ saved \subseteq expected

\* C22 witness: of the two scenarios of a project the first passed and the
\* second, whose reference is missing, failed; only the screenshot of the
\* second was written.
C22_OnlyFailedSaved ==
    /\ runPc = "returned"
    /\ config.save = {"Failure"}
    /\ Len(failures[0]) = 1
    /\ failures[0][1].event = "b"
    /\ results[0][1].kind = "png"
    /\ saved = {[project |-> 0, kind |-> "png", index |-> 1, data |-> results[0][2]]}

(***************************************************************************)
(* Properties of the modes of the comparison pass.                         *)
(***************************************************************************)
\* C23: in capture-only mode, once run() is past its comparison loop, no
\* project has a failed scenario or a difference image, no comparison threw
\* and the value of run() is true, whatever the references and the captures are.
C23_CaptureOnlySkipsComparison ==
    (Compared /\ config.mode = "Capture") =>
        /\ runPc # "rejected"
        /\ \A p \in Projects : failures[p] = <<>> /\ differences[p] = <<>>
        /\ success

\* C23 witness: run() returned true in capture-only mode although a reference
\* is missing and an event was never dispatched.
C23_TrueDespiteMissing ==
    /\ runPc = "returned"
    /\ config.mode = "Capture"
    /\ files[0][1].kind = "missing"
    /\ pngs[1][2] = NotDispatched("b")
    /\ success

\* C24: for the scenarios, screenshots and references of every project that
\* went into the comparison pass, _compare gives the same failed list, and
\* throws or not alike, with computeDifference true and false; the list run()
\* kept is that one.
C24_DifferenceKeepsVerdict ==
    (Compared /\ config.mode = "CaptureAndCompare") =>
        \A p \in Projects :
            LET with == Compare(project(p).scenarios, screenshots[p], references[p], TRUE)
                without == Compare(project(p).scenarios, screenshots[p], references[p], FALSE)
            IN  /\ with.failed = without.failed
                /\ with.threw = without.threw
                /\ runPc # "rejected" => failures[p] = without.failed

\* C24 witness: run() returned with difference images asked for, a scenario
\* failed and its difference image computed.
C24_FailedWithDifference ==
    /\ runPc = "returned"
    /\ "Difference" \in config.save
    /\ Len(failures[0]) = 1
    /\ differences[0][1] # Null

\* C25: with difference images saved, once the writes are started there is,
\* for every failed scenario whose screenshot and reference are both images,
\* a write under the name of that scenario of the difference image of that
\* scenario's own screenshot and reference.
C25_DifferenceOfOwnScenario ==
    (runPc \in {"saving", "returned"} /\ "Difference" \in config.save) =>
        \A p \in Projects : \A j \in 1 .. Len(failures[p]) :
            LET i == failures[p][j].index + 1
                shot == screenshots[p][i]
                ref == references[p][i]
            IN  (shot.kind = "image" /\ ref.kind = "image") =>
                    \E w \in Writes(failures, differences) :
                        /\ w.project = p
                        /\ w.kind = "diff"
                        /\ w.index = failures[p][j].index
                        /\ w.data = [kind |-> "image",
                                     image |-> Image(shot.image.width, shot.image.height,
                                         PixelMatch(shot.image.data, ref.image.data,
                                                    Len(ref.image.data), shot.image.width,
                                                    shot.image.height).output)]

(***************************************************************************)
(* Properties of the waiting loop and of the settling of _capture.         *)
(***************************************************************************)
\* The waiting loop of project p ended with events missing: its timeout expired.
TimedOut(p) ==
    /\ cPc[p] \in {"closing", "fulfilled"}
    /\ eventCount[p] < Len(project(p).scenarios)

\* C26: the step in which the timeout of a project expires only moves that
\* project to the closing of its page: no slot of any project and no other
\* capturer changes; a slot that holds a screenshot holds one for the rest of
\* the run; and while a project has timed out, the screenshot a page of
\* another project is waiting for can still be stored.
C26_TimeoutIsLocal ==
    /\ [][\A p \in Projects :
            /\ (cPc[p] = "poll" /\ cPc'[p] # "poll" /\ ~TimedOut(p)' ) =>
                   eventCount[p] >= Len(project(p).scenarios)
            /\ (cPc[p] = "poll" /\ TimedOut(p)') =>
                   /\ cPc'[p] = "closing"
                   /\ results' = results
                   /\ \A q \in Projects \ {p} :
                          /\ cPc'[q] = cPc[q]
                          /\ inflight'[q] = inflight[q]
                          /\ eventCount'[q] = eventCount[q]
            /\ \A i \in 1 .. Len(results[p]) :
                   results[p][i].kind = "png" => results'[p][i].kind = "png"]_vars
    /\ [](\A p \in Projects : \A q \in Projects \ {p} : \A e \in inflight[q] :
             (TimedOut(p) /\ ProcessRuns /\ cPc[q] \in PageLive) =>
                 ENABLED ScreenshotTaken(q, e))

\* C26 witness: two capturers ran side by side; the first project timed out
\* with the screenshot of a stored and b never dispatched, and has returned
\* that; the page of the second project, still running, is waiting for a
\* screenshot.
C26_SiblingRunsAfterTimeout ==
    /\ N >= 2
    /\ contextsCount >= 2
    /\ TimedOut(0)
    /\ cPc[0] = "fulfilled"
    /\ results[0][1].kind = "png"
    /\ results[0][2] = NotDispatched("b")
    /\ cPc[1] \in PageLive
    /\ inflight[1] = {"a"}
    /\ ProcessRuns

\* C27: once _capture has settled, fulfilled or rejected, no capture task it
\* started is still running.
C27_SettlesAfterEveryTask ==
    capPc \in {"fulfilled", "rejected"} =>
        \A i \in Projects : result[i] # NoTask => cPc[result[i]] \notin Running

\* runner.ts:447: the capturer of project p got as far as calling page.close():
\* it returned after it, or page.close() itself rejected.
CloseCalled(p) ==
    \/ cPc[p] = "fulfilled"
    \/ cPc[p] = "rejected" /\ reason[p] = Rejection("page.close")

\* C28: a capturer that has finished, its context handed back to the pool,
\* has called page.close() on its page, whatever made it finish.
C28_PageClosedBeforeRelease ==
    \A p \in Projects : cPc[p] \in Settled => CloseCalled(p)

(***************************************************************************)
(* Properties of compare on images of unequal dimensions.                  *)
(***************************************************************************)
\* C29: compare applied to an image and an expected image whose widths or
\* heights differ throws, and has summed no square error and kept no maximum
\* when it does: the test comes before any pixel is read.
C29_MismatchThrowsFirst ==
    (cmp # Null /\ cmp.pc = "rmse") =>
        ((cmp.image.width # cmp.expected.width
              \/ cmp.image.height # cmp.expected.height) =>
            /\ cmp.result.threw
            /\ cmp.result.difference = 0
            /\ cmp.result.max = 0
            /\ ~cmp.result.failed)

\* C29 witness: compare has thrown for an expected image one row higher than
\* the image and as wide.
C29_ThrewOnHeightAlone ==
    /\ cmp # Null
    /\ cmp.pc = "rmse"
    /\ cmp.image.width = cmp.expected.width
    /\ cmp.image.height + 1 = cmp.expected.height
    /\ cmp.result.threw

(***************************************************************************)
(* Properties of the order in which _capture starts the capturers.         *)
(***************************************************************************)
\* C30: the capturers are started in the order of the projects, 0 first and
\* none skipped, as far as the loop has come; no project is started twice,
\* whatever became of its capture; and when the loop is left every project
\* has been started.
C30_StartedInOrderOnce ==
    /\ Len(starts) = capI
    /\ \A j \in 1 .. Len(starts) : starts[j] = j - 1
    /\ capPc \in {"all", "fulfilled"} => Len(starts) = N
    /\ \A p \in Projects : cPc[p] # "idle" <=> \E j \in 1 .. Len(starts) : starts[j] = p

\* C30 witness: the first capture was rejected and the second timed out, one
\* after the other in the only context; each was started once, and the loop
\* has been left.
C30_FailedNotRestarted ==
    /\ N = 2
    /\ contextsCount = 1
    /\ starts = << 0, 1 >>
    /\ capPc = "all"
    /\ cPc[0] = "rejected"
    /\ cPc[1] = "fulfilled"
    /\ eventCount[1] < Len(project(1).scenarios)

(***************************************************************************)
(* Properties of the waiting loop and the errors of the page.              *)
(***************************************************************************)
\* C31: a poll of the waiting loop made after the page has reported an error
\* is the last one: the capturer leaves the loop at that poll, as it does when
\* every event has been received or the timeout has been reached.
C31_StopsOnPageError ==
    [][\A p \in Projects :
          (cPc[p] = "poll" /\ time'[p] # time[p]
               /\ (\/ errors[p] > 0
                   \/ eventCount[p] >= Len(project(p).scenarios)
                   \/ time'[p] >= project(p).timeout)) =>
              cPc'[p] # "poll"]_vars

(***************************************************************************)
(* Properties of the order of the steps of run().                          *)
(***************************************************************************)
\* runner.ts:151-174: loadReferences has been called for every project; the
\* server is created in the same turn, right after.
ReferencesRequested == server # "none"

Digits == << "0", "1", "2", "3", "4", "5", "6", "7", "8", "9" >>

\* Number.prototype.toString of a non-negative integer.
RECURSIVE NumberToString(_)
NumberToString(n) ==
    IF n < 10 THEN << Digits[n + 1] >>
    ELSE NumberToString(n \div 10) \o << Digits[(n % 10) + 1] >>

\* parseInt of a string without sign or blanks: the number its leading digits
\* write, NaN when it does not start with a digit.
IsDigit(c) == \E d \in 1 .. Len(Digits) : Digits[d] = c
DigitValue(c) == (CHOOSE d \in 1 .. Len(Digits) : Digits[d] = c) - 1
RECURSIVE ParseDigits(_, _)
ParseDigits(str, acc) ==
    IF str = <<>> \/ ~IsDigit(Head(str)) THEN acc
    ELSE ParseDigits(Tail(str), 10 * acc + DigitValue(Head(str)))
ParseInt(str) ==
    IF str = <<>> \/ ~IsDigit(Head(str)) THEN NaN ELSE Num(ParseDigits(str, 0))

\* ExtraHTTPHeaders tagging every page as one of the first project.
ExtraHTTPHeaders_OfFirst(projectId) ==
    [name |-> "test-project", value |-> NumberToString(0)]

\* runner.ts:390-393: the header the capturer of project projectId sets on its
\* page; the page sends it with every request.
ExtraHTTPHeaders(projectId) ==
    [name |-> "test-project", value |-> NumberToString(projectId)]

\* runner.ts:117-118: resolve(project.path, 'deploy').
Deploy(proj) == Path(<< proj.name, "deploy" >>)

\* runner.ts:109-120, _httpCallback: the directory a request with the given
\* headers is answered from; Null stands for the default of serve-handler,
\* the working directory.
HttpCallback(headers) ==
    LET named == {h \in headers : h.name = "test-project"}
        header == IF named = {} THEN <<>> ELSE (CHOOSE h \in named : TRUE).value
        projectId == ParseInt(header)
    IN  IF IsNaN(projectId) THEN Null
        ELSE Deploy(config.projects[projectId.value + 1])

\* The pages that are open: each sends requests when its capturer navigates
\* it and for as long as it stays open.
Pages == {p \in Projects : cPc[p] \in PageLive}

\* C33: a request of the page of project p, which carries the headers the
\* capturer of p set, is answered from the deploy directory of project p and
\* of no other project, whichever other pages are open; a request without
\* the header is answered from no project's directory.
C33_ServedOwnProject ==
    /\ \A p \in Pages :
          /\ HttpCallback({ExtraHTTPHeaders(p)}) = Deploy(project(p))
          /\ \A q \in Projects \ {p} :
                 HttpCallback({ExtraHTTPHeaders(p)}) # Deploy(project(q))
    /\ \A q \in Projects : HttpCallback({}) # Deploy(project(q))

\* C33 witness: the pages of the first two projects are open side by side,
\* each in its own context.
C33_TwoPagesOpen ==
    /\ {0, 1} \subseteq Pages
    /\ slot[0].freeContext # slot[1].freeContext
    /\ server = "listening"

(***************************************************************************)
(* The capturer of the fidelity runner on its own (fidelity.ts:379-464,    *)
(* _captureScreenshots; part_010:257-340 is the same): config.watch is an  *)
(* event id or null, and processEvent sets the local `watching`.           *)
(***************************************************************************)
\* fidelity.ts:122: config.watch when it is not null.
EventId(e) == [kind |-> "string", value |-> e]

\* fidelity.ts:452, the condition of the waiting loop.
FidelityKeepWaiting(watching, count, received, elapsed, timeout) ==
    ~watching /\ received < count /\ elapsed < timeout

\* fidelity.ts:452-463: where the capturer is after it has evaluated the
\* condition of the loop: waiting for the timer, for a navigation of the
\* page, or for page.close.
FidelityAfterCheck(f, elapsed) ==
    IF FidelityKeepWaiting(f.watching, Len(f.scenarios), f.eventCount, elapsed, f.timeout)
    THEN "poll"
    ELSE IF f.watching THEN "watching" ELSE "closing"

\* fidelity.ts:379-395,417-418: the locals of _captureScreenshots when it
\* awaits page.goto.
FidelityCapturer(scenarios, timeout, watch) ==
    [pc |-> "goto",
     scenarios |-> scenarios,
     timeout |-> timeout,
     watch |-> watch,
     results |-> InitResults(scenarios),
     eventCount |-> 0,
     watching |-> FALSE,
     time |-> 0,
     inflight |-> {}]

\* fidelity.ts:413-452: page.goto, page.exposeFunction and page.evaluate
\* resolved; the condition of the loop is evaluated for the first time.
FidelityNavigated ==
    /\ fid # Null
    /\ fid.pc = "goto"
    /\ fid' = [fid EXCEPT !.pc = FidelityAfterCheck(fid, 0)]
    /\ UNCHANGED << config, cmp, runVars, capVars, taskVars >>

\* fidelity.ts:420-426: the page calls fidelityScreenshot(e); processEvent
\* returns at once for an unknown event, else runs up to its await of
\* page.screenshot.
FidelityProcessEvent(e) ==
    /\ fid # Null
    /\ fid.pc \in {"poll", "watching", "closing"}
    /\ fid.inflight = {}
    /\ fid.eventCount < MaxCalls
    /\ fid' = IF HasEvent(fid.scenarios, e)
              THEN [fid EXCEPT !.inflight = {e}]
              ELSE fid
    /\ UNCHANGED << config, cmp, runVars, capVars, taskVars >>

\* fidelity.ts:426-436: page.screenshot resolved; the slot is written, the
\* counter incremented and `watching` assigned.
FidelityScreenshotTaken(e) ==
    /\ fid # Null
    /\ fid.pc \in {"poll", "watching", "closing"}
    /\ e \in fid.inflight
    /\ fid' = [fid EXCEPT
                 !.inflight = {},
                 !.results[GetScenario(fid.scenarios, e) + 1] =
                     Screenshot(0, e, Image(1, 1, << 0 >>)),
                 !.eventCount = @ + 1,
                 !.watching = (fid.watch = EventId(e))]
    /\ UNCHANGED << config, cmp, runVars, capVars, taskVars >>

\* fidelity.ts:452-461: the timer of the waiting loop fires and the condition
\* is evaluated again.
FidelityPollWake ==
    /\ fid # Null
    /\ fid.pc = "poll"
    /\ fid' = [fid EXCEPT !.time = @ + DebounceTime,
                          !.pc = FidelityAfterCheck(fid, fid.time + DebounceTime)]
    /\ UNCHANGED << config, cmp, runVars, capVars, taskVars >>

\* fidelity.ts:460-463: page.waitForNavigation resolved; page.close is called.
FidelityWatchEnds ==
    /\ fid # Null
    /\ fid.pc = "watching"
    /\ fid' = [fid EXCEPT !.pc = "closing"]
    /\ UNCHANGED << config, cmp, runVars, capVars, taskVars >>

\* fidelity.ts:463-464: page.close resolved and `results` is returned; a
\* screenshot still awaited is lost with the page.
FidelityPageClosed ==
    /\ fid # Null
    /\ fid.pc = "closing"
    /\ fid' = [fid EXCEPT !.pc = "returned", !.inflight = {}]
    /\ UNCHANGED << config, cmp, runVars, capVars, taskVars >>

\* The capturers tried: the scenarios of a project of the configuration, a
\* timeout of 1 to MaxPolls polls, and --watch absent or any event id.
FidelityInit ==
    /\ RunnerInit
    /\ N = 0
    /\ cmp = Null
    /\ \E i \in 0 .. 1, polls \in 1 .. MaxPolls, watch \in {Null} \cup {EventId(e) : e \in Events} :
          fid = FidelityCapturer(Project(i).scenarios, polls * DebounceTime, watch)

FidelityNext ==
    \/ FidelityNavigated
    \/ \E e \in Events : FidelityProcessEvent(e)
    \/ \E e \in Events : FidelityScreenshotTaken(e)
    \/ FidelityPollWake
    \/ FidelityWatchEnds
    \/ FidelityPageClosed

FidelitySpec == FidelityInit /\ [][FidelityNext]_vars

\* The screenshot of the watched event is stored.
WatchedProcessed ==
    /\ fid # Null
    /\ fid.watch # Null
    /\ HasEvent(fid.scenarios, fid.watch.value)
    /\ fid.results[GetScenario(fid.scenarios, fid.watch.value) + 1].kind = "png"

\* C34: a capturer that leaves its waiting loop with the screenshot of the
\* watched event stored goes on to wait for a navigation of the page; it does
\* not close the page, whatever other events were processed since.
C34_WatchedThenBlocks ==
    [][(fid # Null /\ fid.pc = "poll" /\ fid'.pc # "poll" /\ WatchedProcessed) =>
          fid'.pc = "watching"]_vars

(***************************************************************************)
(* Properties of the contexts and of the slots of a capturer.              *)
(***************************************************************************)
\* C35: two capturers that have been started and have not settled never hold
\* the same browser context, nor the same slot of the pool; each holds the
\* context of its slot.
C35_ContextOfOneCapturer ==
    \A p \in Projects :
        cPc[p] \in Running =>
            /\ slot[p].context = Context(slot[p].freeContext)
            /\ \A q \in Projects \ {p} :
                   cPc[q] \in Running =>
                       /\ slot[q].context # slot[p].context
                       /\ slot[q].freeContext # slot[p].freeContext

\* C35 witness: the context of the first project, which has returned, is now
\* that of the second project, still capturing.
C35_ContextHandedOn ==
    /\ N >= 2
    /\ cPc[0] = "fulfilled"
    /\ cPc[1] \in Running
    /\ slot[1].context = slot[0].context
    /\ slot[1].context # Null

\* The scenario slots of project p that hold a screenshot.
Stored(p) == {i \in 1 .. Len(results[p]) : results[p][i].kind = "png"}

\* C36: the counter of a capturer equals the number of its slots that hold a
\* screenshot; and a capturer whose waiting loop ended before the timeout
\* had elapsed holds a screenshot in every slot.
C36_CounterCountsSlots ==
    \A p \in Projects :
        /\ eventCount[p] = Cardinality(Stored(p))
        /\ (cPc[p] = "closing" /\ time[p] < project(p).timeout) =>
               Stored(p) = 1 .. Len(project(p).scenarios)

\* Config.validate accepted the configuration and run() was called.
Validated == cliPc \notin {"load", "validate"} /\ runPc # "idle"

\* C37: in a configuration that Config.validate accepted, every scenario of
\* every project has an event id that processEvent stores in the slot of that
\* scenario.
C37_EverySlotHasEvent ==
    Validated =>
        \A p \in Projects : \A i \in 1 .. Len(project(p).scenarios) :
            \E e \in Events :
                /\ HasEvent(project(p).scenarios, e)
                /\ GetScenario(project(p).scenarios, e) = i - 1

\* C38: when a capturer leaves its waiting loop and calls page.close(), no
\* call of processEvent for a declared event is waiting for its screenshot.
C38_NoCloseDuringScreenshot ==
    [][\A p \in Projects :
          (cPc[p] # "closing" /\ cPc'[p] = "closing") => inflight[p] = {}]_vars

(***************************************************************************)
(* Termination of a capturer.  The timer of the waiting loop fires and     *)
(* page.close() settles: the event loop of Node runs every timer that is   *)
(* due, and the browser answers the close of a page or the connection      *)
(* drops and the call rejects.                                             *)
(***************************************************************************)
\* runner.ts:440-445: the polls a waiting loop can make, timeout / 1000
\* rounded up.
MaxPollsOf(timeout) == (timeout + DebounceTime - 1) \div DebounceTime

TimersFire == \A p \in 0 .. (MaxProjects - 1) : WF_vars(p \in Projects /\ PollWake(p))
ClosesSettle ==
    \A p \in 0 .. (MaxProjects - 1) :
        WF_vars(p \in Projects /\ (PageClosed(p) \/ PageCloseFails(p)))

\* The runs termination is checked in: those of one project, and the
\* capture-only runs of two projects side by side.
LiveInit == Init /\ (N <= 1 \/ (N = 2 /\ config.mode = "Capture"))

LiveSpec == LiveInit /\ [][Next]_vars /\ TimersFire /\ ClosesSettle

\* C39: without --watch, a capturer never makes more polls than its timeout
\* divided by the poll interval, rounded up; and one that is in its waiting
\* loop eventually has called page.close() and settled, returning its
\* results unless that call rejected, or the process has exited before.
C39_CapturerTerminates ==
    /\ [](\A p \in Projects :
             ~config.watch => time[p] <= MaxPollsOf(project(p).timeout) * DebounceTime)
    /\ \A p \in 0 .. (MaxProjects - 1) :
          (p \in Projects /\ ~config.watch /\ cPc[p] \in {"poll", "closing"})
              ~> (~ProcessRuns \/ (p \in Projects /\ CloseCalled(p)))

\* C39 witness: the capturer of the twin project, whose timeout is one poll
\* and a half, has returned its results after two polls with an event
\* missing and an error of the page reported.
C39_ReturnedAfterLastPoll ==
    /\ N = 1
    /\ project(0) = TwinProject
    /\ cPc[0] = "closing"
    /\ time[0] = MaxPollsOf(TwinProject.timeout) * DebounceTime
    /\ time[0] > TwinProject.timeout
    /\ errors[0] > 0
    /\ eventCount[0] < Len(TwinProject.scenarios)

====
